---- MODULE Spec2Model ----
(***************************************************************************)
(* typestyle-react: a memoized class-name computation per styled(...)      *)
(* factory, a style(...) wrapper around TypeStyle's style, and a microtask *)
(* debounce of TypeStyle's forceRenderStyles (src/src/index.ts).           *)
(*                                                                         *)
(* The JavaScript run is modelled as the event loop runs it: a macrotask   *)
(* is one synchronous turn (phase "sync") in which components are          *)
(* constructed and updated and style(...) is called; when the turn ends    *)
(* the microtask queue is drained (phase "micro"), and the next macrotask  *)
(* begins when the queue is empty.                                         *)
(***************************************************************************)
EXTENDS Naturals, Sequences, FiniteSets, TLC

VARIABLES
    cache,        \* per factory: the memoizer's cache object (key -> value)
    cacheSize,    \* per factory: the memoizer's cacheSize counter
    warnings,     \* per factory: number of console.warn calls made
    scheduled,    \* the flag of forceRenderStylesDebounced
    microtasks,   \* the microtask queue, head first
    rules,        \* TypeStyle's registry: class names of the registered rules
    committed,    \* class names of the rules rendered into the document
    phase,        \* "sync" | "micro"
    inst,         \* per component instance: factory, props, state.className
    lastCall,     \* what the last call did: its kind, result or exception
    fnCalls,      \* history: per factory and key, invocations of the wrapped fn
    triggers      \* history: trigger() calls since forceRenderStyles last ran

vars == <<cache, cacheSize, warnings, scheduled, microtasks, rules, committed,
          phase, inst, lastCall, fnCalls, triggers>>

-----------------------------------------------------------------------------
(* Bounds of the model *)

\* misses (successful or failed) one memoizer may take
MaxCacheSize == 2
\* trigger() calls counted between two runs of forceRenderStyles (the
\* history counter stops there)
MaxTriggers == 2
\* user callbacks waiting in the microtask queue
MaxUserTasks == 1
\* component instances mounted at a time
MaxInstances == 1

-----------------------------------------------------------------------------
(* JavaScript values of the model *)

\* the value undefined, as a `styled` prop that was not given
Undefined == [kind |-> "undefined", value |-> "none", circular |-> FALSE]

\* an object given as `styled`: { value: v }, { } when v = "none", and with a
\* property that refers back to the object itself when c
Obj(v, c) == [kind |-> "object", value |-> v, circular |-> c]

\* the values the `value` property takes: a colour, NaN, null, or a value
\* that makes a descriptor TypeStyle rejects
PropValues == {"none", "blue", "NaN", "null", "malformed"}

StyledValues ==
    {Undefined} \cup {Obj(v, FALSE) : v \in PropValues} \cup {Obj("blue", TRUE)}

\* caller-supplied className
ClassNameProps == {"undefined", "foo"}

Factories == {"Color", "Test"}
Instances == 1..MaxInstances

TypeErrorCircular == "TypeError: Converting circular structure to JSON"
TypeStyleError == "Error: TypeStyle rejected the styles"
NoError == "none"

\* JSON.stringify of a property value
JSONValue(v) ==
    CASE v \in {"NaN", "null"} -> "null"
      [] OTHER -> "\"" \o v \o "\""

\* JSON.stringify(param): undefined yields undefined (no string), an object
\* with a cycle throws, NaN is written as null, an absent property is left out
JSONstringify(param) ==
    IF param.kind = "undefined"
    THEN [threw |-> FALSE, undef |-> TRUE, str |-> ""]
    ELSE IF param.circular
    THEN [threw |-> TRUE, undef |-> FALSE, str |-> ""]
    ELSE IF param.value = "none"
    THEN [threw |-> FALSE, undef |-> FALSE, str |-> "{}"]
    ELSE [threw |-> FALSE, undef |-> FALSE,
          str |-> "{\"value\":" \o JSONValue(param.value) \o "}"]

\* cache[cacheKey]: a property key that is undefined is the key "undefined"
PropertyKey(ser) == IF ser.undef THEN "undefined" ELSE ser.str

Keys == {PropertyKey(JSONstringify(p)) :
            p \in {q \in StyledValues : ~JSONstringify(q).threw}}

-----------------------------------------------------------------------------
(* Style descriptors and TypeStyle (the external compiler) *)

\* a StyleDescriptor: false | null | undefined (falsy) or CSS properties;
\* "unset" is a property that is absent or undefined
Falsy == [falsy |-> TRUE, color |-> "unset", padding |-> "unset"]
Css(c, p) == [falsy |-> FALSE, color |-> c, padding |-> p]

\* the style functions of the stories
\* Color: props => ({ color: props.value })
fnColor(props) == Css(IF props.value = "none" THEN "unset" ELSE props.value, "unset")
\* Test: _ => ({})
fnEmpty(props) == Css("unset", "unset")

\* the `styles` rest parameter of each styled(...) call: of the stories
\* (Color, Red, Test), and of a call with the falsy descriptors the type
\* StyleDescriptor admits: styled("span", false, { color: "red" }, null)
Styles(f) ==
    IF f = "Color"
    THEN << [fn |-> "fnColor", lit |-> Falsy] >>
    ELSE IF f = "Red"
    THEN << [fn |-> "none", lit |-> Css("red", "unset")] >>
    ELSE IF f = "RedFalsy"
    THEN << [fn |-> "none", lit |-> Falsy],
            [fn |-> "none", lit |-> Css("red", "unset")],
            [fn |-> "none", lit |-> Falsy] >>
    ELSE << [fn |-> "none", lit |-> Css("green", "unset")],
            [fn |-> "none", lit |-> Css("unset", "5px")],
            [fn |-> "fnEmpty", lit |-> Falsy] >>

ApplyFn(name, props) == IF name = "fnColor" THEN fnColor(props) ELSE fnEmpty(props)

\* TypeStyle's extend: falsy descriptors are skipped, later ones override
RECURSIVE Extend(_)
Extend(args) ==
    IF args = <<>> THEN Css("unset", "unset")
    ELSE LET n == Len(args)
             head == Extend(SubSeq(args, 1, n - 1))
             last == args[n]
         IN IF last.falsy THEN head
            ELSE Css(IF last.color = "unset" THEN head.color ELSE last.color,
                     IF last.padding = "unset" THEN head.padding ELSE last.padding)

\* the class name TypeStyle derives from the merged styles; a null value
\* makes no declaration
ClassOf(d) ==
    "c_" \o (IF d.color = "null" THEN "unset" ELSE d.color) \o "_" \o d.padding

\* typeStyle(...args): the class name, or an exception for styles it rejects
typeStyle(args) ==
    LET d == Extend(args)
    IN IF d.color = "malformed"
       THEN [threw |-> TRUE, err |-> TypeStyleError, value |-> "undefined"]
       ELSE [threw |-> FALSE, err |-> NoError, value |-> ClassOf(d)]

-----------------------------------------------------------------------------
(* The heap the calls of one synchronous block work on *)

World ==
    [cache |-> cache, cacheSize |-> cacheSize, warnings |-> warnings,
     scheduled |-> scheduled, microtasks |-> microtasks, rules |-> rules,
     committed |-> committed, fnCalls |-> fnCalls, triggers |-> triggers,
     served |-> 0, handed |-> <<>>]

\* forceRenderStyles(): renders every registered rule into the document
forceRenderStyles(w) ==
    [w EXCEPT !.committed = w.rules,
              !.served = w.triggers,
              !.triggers = 0]

\* the part of the async function after `await Promise.resolve()`
FlushContinuation(w) ==
    forceRenderStyles([w EXCEPT !.scheduled = FALSE])

\* a debounce that calls fn at once, on the leading edge
microTaskDebounceLeading(w) ==
    forceRenderStyles([w EXCEPT !.triggers = IF @ < MaxTriggers THEN @ + 1 ELSE @])

\* a debounce that does not test the flag: every call queues a continuation
microTaskDebounceNoFlag(w) ==
    LET counted == [w EXCEPT !.triggers = IF @ < MaxTriggers THEN @ + 1 ELSE @]
    IN [counted EXCEPT !.scheduled = TRUE,
                       !.microtasks = Append(w.microtasks, "flush")]

\* forceRenderStylesDebounced(): the async function microTaskDebounce returns,
\* up to its await; the rest is queued as a microtask
microTaskDebounce(w) ==
    LET counted == [w EXCEPT !.triggers = IF @ < MaxTriggers THEN @ + 1 ELSE @]
    IN IF ~w.scheduled
       THEN [counted EXCEPT !.scheduled = TRUE,
                            !.microtasks = Append(w.microtasks, "flush")]
       ELSE counted

\* style without the call of forceRenderStylesDebounced
styleNoTrigger(args, w) ==
    LET r == typeStyle(args)
    IN [threw |-> r.threw, err |-> r.err, value |-> r.value,
        world |-> IF r.threw THEN w
                  ELSE [w EXCEPT !.rules = w.rules \cup {r.value}]]

\* style that calls forceRenderStylesDebounced after typeStyle returned, with
\* no finally
styleNoFinally(args, w) ==
    LET r == typeStyle(args)
    IN [threw |-> r.threw, err |-> r.err, value |-> r.value,
        world |-> IF r.threw THEN w
                  ELSE microTaskDebounce([w EXCEPT !.rules = w.rules \cup {r.value}])]

\* style(...args): try { return typeStyle(...args) } finally { trigger }
style(args, w) ==
    LET r == typeStyle(args)
        called == [w EXCEPT !.handed = args]
        registered == IF r.threw THEN called
                      ELSE [called EXCEPT !.rules = w.rules \cup {r.value}]
    IN [threw |-> r.threw, err |-> r.err, value |-> r.value,
        world |-> microTaskDebounce(registered)]

-----------------------------------------------------------------------------
(* The memoizer and the class computation of a styled(...) factory *)

\* the warning threshold of memoizeUnbounded
cacheSizeWarn == 1000

\* a class computation whose default for an absent styledProps is not the
\* empty object but { value: "blue" }
StyleArgsBlueDefault(f, styledProps) ==
    LET given == IF styledProps # Undefined THEN styledProps ELSE Obj("blue", FALSE)
    IN [n \in 1..Len(Styles(f)) |->
            IF Styles(f)[n].fn # "none"
            THEN ApplyFn(Styles(f)[n].fn, given)
            ELSE Styles(f)[n].lit]

\* a class computation that hands the descriptors over in reverse order
StyleArgsReversed(f, styledProps) ==
    LET given == IF styledProps # Undefined THEN styledProps ELSE Obj("none", FALSE)
        m == Len(Styles(f))
    IN [n \in 1..m |->
            IF Styles(f)[m + 1 - n].fn # "none"
            THEN ApplyFn(Styles(f)[m + 1 - n].fn, given)
            ELSE Styles(f)[m + 1 - n].lit]

\* the function styled(...) memoizes:
\* styledProps => style(...styles.map(s => typeof s === "function"
\*     ? s(styledProps !== undefined ? styledProps : {}) : s))
StyleArgs(f, styledProps) ==
    LET given == IF styledProps # Undefined THEN styledProps ELSE Obj("none", FALSE)
    IN [n \in 1..Len(Styles(f)) |->
            IF Styles(f)[n].fn # "none"
            THEN ApplyFn(Styles(f)[n].fn, given)
            ELSE Styles(f)[n].lit]

\* a class computation that debounces through a coalescer of the factory's
\* own, which does not see the flag set by style(...) calls made elsewhere
computeClassOwnCoalescer(f, styledProps, w) ==
    LET r == style(StyleArgs(f, styledProps), [w EXCEPT !.scheduled = FALSE])
    IN [r EXCEPT !.world.scheduled = TRUE]

\* styledProps => style(...), calling the exported style of the module and
\* so the one forceRenderStylesDebounced
computeClass(f, styledProps, w) == style(StyleArgs(f, styledProps), w)

\* the miss of memoizeUnbounded: count, warn, call fn
Grown(f, cacheKey, w) ==
    [w EXCEPT !.cacheSize[f] = @ + 1,
              !.warnings[f] = IF w.cacheSize[f] + 1 = cacheSizeWarn THEN @ + 1 ELSE @,
              !.fnCalls[f][cacheKey] = @ + 1]

\* a memoizer that does not look the key up
memoizeNoLookup(f, param, w) ==
    LET ser == JSONstringify(param)
        cacheKey == PropertyKey(ser)
        r == computeClass(f, param, Grown(f, cacheKey, w))
    IN IF ser.threw
       THEN [threw |-> TRUE, err |-> TypeErrorCircular, value |-> "undefined",
             world |-> w]
       ELSE IF r.threw THEN r
       ELSE [r EXCEPT !.world.cache[f][cacheKey] = r.value]

\* a memoizer that does not store what fn returned
memoizeNoStore(f, param, w) ==
    LET ser == JSONstringify(param)
        cacheKey == PropertyKey(ser)
        lookup == w.cache[f][cacheKey]
    IN IF ser.threw
       THEN [threw |-> TRUE, err |-> TypeErrorCircular, value |-> "undefined",
             world |-> w]
       ELSE IF lookup # "undefined"
       THEN [threw |-> FALSE, err |-> NoError, value |-> lookup, world |-> w]
       ELSE computeClass(f, param, Grown(f, cacheKey, w))

\* a memoizer that catches the serializer's exception and calls fn uncached
memoizeCatchSerialize(f, param, w) ==
    LET ser == JSONstringify(param)
        cacheKey == PropertyKey(ser)
        lookup == w.cache[f][cacheKey]
        r == computeClass(f, param, Grown(f, cacheKey, w))
    IN IF ser.threw
       THEN computeClass(f, param, w)
       ELSE IF lookup # "undefined"
       THEN [threw |-> FALSE, err |-> NoError, value |-> lookup, world |-> w]
       ELSE IF r.threw THEN r
       ELSE [r EXCEPT !.world.cache[f][cacheKey] = r.value]

\* a memoizer that keeps one entry: a miss replaces the cache
memoizeEvict(f, param, w) ==
    LET ser == JSONstringify(param)
        cacheKey == PropertyKey(ser)
        lookup == w.cache[f][cacheKey]
        r == computeClass(f, param, Grown(f, cacheKey, w))
    IN IF ser.threw
       THEN [threw |-> TRUE, err |-> TypeErrorCircular, value |-> "undefined",
             world |-> w]
       ELSE IF lookup # "undefined"
       THEN [threw |-> FALSE, err |-> NoError, value |-> lookup, world |-> w]
       ELSE IF r.threw THEN r
       ELSE [r EXCEPT !.world.cache[f] =
                [k \in Keys |-> IF k = cacheKey THEN r.value ELSE "undefined"]]

\* a memoizer whose cache object is one for all factories
memoizeShared(f, param, w) ==
    LET ser == JSONstringify(param)
        cacheKey == PropertyKey(ser)
        lookup == w.cache["Color"][cacheKey]
        r == computeClass(f, param, Grown("Color", cacheKey, w))
    IN IF ser.threw
       THEN [threw |-> TRUE, err |-> TypeErrorCircular, value |-> "undefined",
             world |-> w]
       ELSE IF lookup # "undefined"
       THEN [threw |-> FALSE, err |-> NoError, value |-> lookup, world |-> w]
       ELSE IF r.threw THEN r
       ELSE [r EXCEPT !.world.cache["Color"][cacheKey] = r.value]

\* a memoizer whose warning ends the call: the miss that reaches cacheSizeWarn
\* throws before fn is called
memoizeWarnAborts(f, param, w) ==
    LET ser == JSONstringify(param)
        cacheKey == PropertyKey(ser)
        lookup == w.cache[f][cacheKey]
        r == computeClass(f, param, Grown(f, cacheKey, w))
    IN IF ser.threw
       THEN [threw |-> TRUE, err |-> TypeErrorCircular, value |-> "undefined",
             world |-> w]
       ELSE IF lookup # "undefined"
       THEN [threw |-> FALSE, err |-> NoError, value |-> lookup, world |-> w]
       ELSE IF w.cacheSize[f] + 1 = cacheSizeWarn
       THEN [threw |-> TRUE, err |-> "Error: cache size", value |-> "undefined",
             world |-> [w EXCEPT !.cacheSize[f] = @ + 1, !.warnings[f] = @ + 1]]
       ELSE IF r.threw THEN r
       ELSE [r EXCEPT !.world.cache[f][cacheKey] = r.value]

\* a memoizer whose hit also calls the debounced flush
memoizeHitTriggers(f, param, w) ==
    LET ser == JSONstringify(param)
        cacheKey == PropertyKey(ser)
        lookup == w.cache[f][cacheKey]
        r == computeClass(f, param, Grown(f, cacheKey, w))
    IN IF ser.threw
       THEN [threw |-> TRUE, err |-> TypeErrorCircular, value |-> "undefined",
             world |-> w]
       ELSE IF lookup # "undefined"
       THEN [threw |-> FALSE, err |-> NoError, value |-> lookup,
             world |-> microTaskDebounce(w)]
       ELSE IF r.threw THEN r
       ELSE [r EXCEPT !.world.cache[f][cacheKey] = r.value]

\* the function memoizeUnbounded(fn) returns, for the cache of factory f
memoizeUnbounded(f, param, w) ==
    LET ser == JSONstringify(param)
        cacheKey == PropertyKey(ser)
        lookup == w.cache[f][cacheKey]
        r == computeClass(f, param, Grown(f, cacheKey, w))
    IN IF ser.threw
       THEN [threw |-> TRUE, err |-> TypeErrorCircular, value |-> "undefined",
             world |-> w]
       ELSE IF lookup # "undefined"
       THEN [threw |-> FALSE, err |-> NoError, value |-> lookup, world |-> w]
       ELSE IF r.threw
       THEN r
       ELSE [r EXCEPT !.world.cache[f][cacheKey] = r.value]

\* a memoizer made anew for each resolution, as if memoizeUnbounded were
\* called in the component and not in styled(...)
memoizedComputeClassFresh(f, styledProps, w) ==
    memoizeUnbounded(f, styledProps,
        [w EXCEPT !.cache[f] = [k \in DOMAIN w.cache[f] |-> "undefined"]])

\* memoizedComputeClass of the factory f
memoizedComputeClass(f, styledProps, w) == memoizeUnbounded(f, styledProps, w)

-----------------------------------------------------------------------------
(* The component class Styled of a factory *)

Unmounted ==
    [mounted |-> FALSE, factory |-> "none", styled |-> Undefined,
     classNameProp |-> "undefined", className |-> "undefined",
     element |-> "undefined"]

\* the `styled` values the Props type of a factory admits: required for
\* Color, whose StyledProps is { value: string }; optional for Test, whose
\* StyledProps is { foo?: string }
StyledFor(f) ==
    IF f = "Color" THEN StyledValues \ {Undefined}
    ELSE {Undefined, Obj("none", FALSE)}

\* the props objects a caller gives: styled and className; a className is
\* given together with the styled value { }
PropsValues(f) ==
    {p \in [styled : StyledFor(f), className : ClassNameProps] :
        p.className # "undefined" => p.styled = Obj("none", FALSE)}

\* a render that puts the computed class first
renderComputedFirst(props, className) ==
    IF props.className # "undefined"
    THEN className \o " " \o props.className
    ELSE className

\* render(): the className attribute of the created element
render(props, className) ==
    IF props.className # "undefined"
    THEN props.className \o " " \o className
    ELSE className

\* PureComponent: props are compared shallowly, an object by its identity
ShallowEqualProps(prev, next, sameObject) ==
    /\ prev.className = next.className
    /\ \/ sameObject
       \/ prev.styled = Undefined /\ next.styled = Undefined

\* a componentWillReceiveProps that reads this.props in place of nextProps
componentWillReceivePropsStale(self, nextProps, w) ==
    memoizedComputeClass(self.factory, self.styled, w)

\* a componentWillReceiveProps that catches the exception of the class
\* computation and sets the state without a class
componentWillReceivePropsCatch(self, nextProps, w) ==
    LET r == memoizedComputeClass(self.factory, nextProps.styled, w)
    IN IF r.threw
       THEN [threw |-> FALSE, err |-> NoError, value |-> "undefined",
             world |-> r.world]
       ELSE r

\* componentWillReceiveProps(nextProps) of the instance self: the state to set
componentWillReceiveProps(self, nextProps, w) ==
    memoizedComputeClass(self.factory, nextProps.styled, w)

-----------------------------------------------------------------------------
(* Actions *)

\* the record of a call: op is "style", "construct", "update" or "flush";
\* i, f and param are the instance, its factory and the `styled` value given;
\* args are the arguments of a direct style(...) call; threw, err and value
\* are the exception or the value the caller gets; rendered tells whether
\* render ran; served is the number of trigger() calls a flush answers
NoCall == [op |-> "none", i |-> 0, f |-> "none", param |-> Undefined,
           args |-> <<>>, threw |-> FALSE, err |-> NoError,
           value |-> "undefined", rendered |-> FALSE, served |-> 0]

Call(op, i, f, param, args, r, rendered) ==
    [op |-> op, i |-> i, f |-> f, param |-> param, args |-> args,
     threw |-> r.threw, err |-> r.err, value |-> r.value,
     rendered |-> rendered, served |-> 0]

Commit(w) ==
    /\ cache' = w.cache
    /\ cacheSize' = w.cacheSize
    /\ warnings' = w.warnings
    /\ scheduled' = w.scheduled
    /\ microtasks' = w.microtasks
    /\ rules' = w.rules
    /\ committed' = w.committed
    /\ fnCalls' = w.fnCalls
    /\ triggers' = w.triggers

\* the misses a memoizer has taken when the run near the warning threshold
\* begins: one less than cacheSizeWarn
EarlierMisses == cacheSizeWarn - 1

\* a memoizer takes at most MaxCacheSize misses in a run, counted from 0 or
\* from EarlierMisses
Bounded(w) ==
    \A f \in Factories :
        \/ w.cacheSize[f] <= MaxCacheSize
        \/ /\ w.cacheSize[f] >= EarlierMisses
           /\ w.cacheSize[f] <= EarlierMisses + MaxCacheSize

\* arguments of the direct style(...) calls
DirectArgs ==
    { << Css("red", "unset"), Css("blue", "unset") >>,
      << Css("malformed", "unset") >> }

\* a direct call of the exported style(...)
StyleCall(args) ==
    /\ phase = "sync"
    /\ LET r == style(args, World)
       IN /\ Bounded(r.world)
          /\ Commit(r.world)
          /\ lastCall' = Call("style", 0, "none", Undefined, args, r, FALSE)
    /\ UNCHANGED <<phase, inst>>

\* an instance of the component of factory f is constructed with props and
\* rendered; an exception in the state initializer leaves no instance
Construct(i, f, props) ==
    /\ phase = "sync"
    /\ ~inst[i].mounted
    /\ \A j \in Instances : j < i => inst[j].mounted
    /\ props \in PropsValues(f)
    /\ LET r == memoizedComputeClass(f, props.styled, World)
       IN /\ Bounded(r.world)
          /\ Commit(r.world)
          /\ lastCall' = Call("construct", i, f, props.styled, <<>>, r, ~r.threw)
          /\ inst' = IF r.threw THEN inst
                     ELSE [inst EXCEPT ![i] =
                            [mounted |-> TRUE, factory |-> f,
                             styled |-> props.styled,
                             classNameProp |-> props.className,
                             className |-> r.value,
                             element |-> render(props, r.value)]]
    /\ UNCHANGED phase

\* the framework unmounts instance i; the class has no teardown code
Unmount(i) ==
    /\ phase = "sync"
    /\ inst[i].mounted
    /\ \A j \in Instances : j > i => ~inst[j].mounted
    /\ inst' = [inst EXCEPT ![i] = Unmounted]
    /\ lastCall' = NoCall
    /\ UNCHANGED <<cache, cacheSize, warnings, scheduled, microtasks, rules,
                   committed, phase, fnCalls, triggers>>

\* the owner renders instance i again with nextProps: componentWillReceiveProps
\* sets the state, then PureComponent decides whether render runs
Update(i, nextProps, sameObject) ==
    /\ phase = "sync"
    /\ inst[i].mounted
    /\ nextProps \in PropsValues(inst[i].factory)
    /\ sameObject => inst[i].styled # Undefined /\ nextProps.styled # Undefined
    /\ LET f == inst[i].factory
           prev == [styled |-> inst[i].styled, className |-> inst[i].classNameProp]
           r == componentWillReceiveProps(inst[i], nextProps, World)
           rerender == \/ ~ShallowEqualProps(prev, nextProps, sameObject)
                       \/ r.value # inst[i].className
       IN /\ Bounded(r.world)
          /\ Commit(r.world)
          /\ lastCall' = Call("update", i, f, nextProps.styled, <<>>, r,
                               ~r.threw /\ rerender)
          /\ inst' = IF r.threw THEN inst
                     ELSE [inst EXCEPT ![i] =
                            [mounted |-> TRUE, factory |-> f,
                             styled |-> nextProps.styled,
                             classNameProp |-> nextProps.className,
                             className |-> r.value,
                             element |-> IF rerender
                                         THEN render(nextProps, r.value)
                                         ELSE inst[i].element]]
    /\ UNCHANGED phase

UserTasks == Len(SelectSeq(microtasks, LAMBDA t : t = "user"))

\* user code queues a callback as a microtask (Promise.resolve().then(cb))
QueueUserTask ==
    /\ phase = "sync"
    /\ UserTasks < MaxUserTasks
    /\ microtasks' = Append(microtasks, "user")
    /\ lastCall' = NoCall
    /\ UNCHANGED <<cache, cacheSize, warnings, scheduled, rules, committed,
                   phase, inst, fnCalls, triggers>>

\* the synchronous turn ends: the microtask queue is drained next
EndTurn ==
    /\ phase = "sync"
    /\ microtasks # <<>>
    /\ phase' = "micro"
    /\ lastCall' = NoCall
    /\ UNCHANGED <<cache, cacheSize, warnings, scheduled, microtasks, rules,
                   committed, inst, fnCalls, triggers>>

\* the queue without its n-th entry
Without(q, n) == SubSeq(q, 1, n - 1) \o SubSeq(q, n + 1, Len(q))

\* a microtask runs: the continuation of the debounced function, or a user
\* callback that calls style(...). The continuation resumes one tick after
\* the await in a native async function and some ticks later in a transpiled
\* one, so a user callback queued behind it may run before it
RunMicrotask ==
    /\ phase = "micro"
    /\ \E n \in 1..Len(microtasks) :
         /\ \A m \in 1..(n - 1) : microtasks[m] = "flush"
         /\ LET popped == [World EXCEPT !.microtasks = Without(microtasks, n)]
            IN \/ /\ microtasks[n] = "flush"
                  /\ Commit(FlushContinuation(popped))
                  /\ lastCall' = [NoCall EXCEPT
                                    !.op = "flush",
                                    !.served = FlushContinuation(popped).served]
                  /\ phase' = IF popped.microtasks = <<>> THEN "sync" ELSE "micro"
               \/ /\ microtasks[n] = "user"
                  /\ \E args \in DirectArgs :
                       LET r == style(args, popped)
                       IN /\ Commit(r.world)
                          /\ lastCall' = Call("style", 0, "none", Undefined, args,
                                              r, FALSE)
                          /\ phase' = IF r.world.microtasks = <<>> THEN "sync"
                                      ELSE "micro"
    /\ UNCHANGED inst

AllProps == [styled : StyledValues, className : ClassNameProps]

Init ==
    /\ cache = [f \in Factories |-> [k \in Keys |-> "undefined"]]
    /\ cacheSize = [f \in Factories |-> 0]
    /\ warnings = [f \in Factories |-> 0]
    /\ scheduled = FALSE
    /\ microtasks = <<>>
    /\ rules = {}
    /\ committed = {}
    /\ phase = "sync"
    /\ inst = [i \in Instances |-> Unmounted]
    /\ lastCall = NoCall
    /\ fnCalls = [f \in Factories |-> [k \in Keys |-> 0]]
    /\ triggers = 0

Next ==
    \/ \E args \in DirectArgs : StyleCall(args)
    \/ \E i \in Instances, f \in Factories, props \in AllProps :
         Construct(i, f, props)
    \/ \E i \in Instances, props \in AllProps, sameObject \in BOOLEAN :
         Update(i, props, sameObject)
    \/ \E i \in Instances : Unmount(i)
    \/ QueueUserTask
    \/ EndTurn
    \/ RunMicrotask

Spec == Init /\ [][Next]_vars

\* the event loop: synchronous code runs to its end, and the microtask queue
\* is drained once the stack is empty
FairSpec == Spec /\ WF_vars(EndTurn) /\ WF_vars(RunMicrotask)

\* the state after each factory's component resolved EarlierMisses distinct
\* styled values, other than the values of the model, each of which returned
\* a class and was cached, and the styles were rendered
WarnInit ==
    /\ cache = [f \in Factories |-> [k \in Keys |-> "undefined"]]
    /\ cacheSize = [f \in Factories |-> EarlierMisses]
    /\ warnings = [f \in Factories |-> 0]
    /\ scheduled = FALSE
    /\ microtasks = <<>>
    /\ rules = {}
    /\ committed = {}
    /\ phase = "sync"
    /\ inst = [i \in Instances |-> Unmounted]
    /\ lastCall = NoCall
    /\ fnCalls = [f \in Factories |-> [k \in Keys |-> 0]]
    /\ triggers = 0

\* the program near the warning threshold of its memoizers
WarnSpec == WarnInit /\ [][Next]_vars

\* the number of entries in the cache of factory f in a run of WarnSpec
CachedEntries(f) ==
    EarlierMisses + Cardinality({k \in Keys : cache[f][k] # "undefined"})

-----------------------------------------------------------------------------
(* The element render() creates, with all the props a caller may give *)

\* the tag given to styled(...): "span" for Color and for Test
Tag(f) == "span"

\* the `inner` prop of the doc comment and of the stories: absent, or
\* { id: "some-id" }
NoInner == [kind |-> "undefined", id |-> "undefined"]
InnerId == [kind |-> "object", id |-> "some-id"]

\* the props object given to a Color element: the props render() consumes
\* (styled: absent, { } or { value: "blue" }; className, innerRef, children)
\* and other props: the DOM attribute
\* id, the style parameter `value` given as a prop of its own, and `inner`
ElementProps ==
    [styled : {Undefined, Obj("none", FALSE), Obj("blue", FALSE)},
     className : ClassNameProps,
     innerRef : {"undefined", "refCallback"},
     children : {"undefined", "Blue text"},
     id : {"undefined", "my-id"},
     value : {"undefined", "blue"},
     inner : {NoInner, InnerId}]

\* the props render() takes out of this.props
Consumed == {"innerRef", "styled", "children", "className"}

\* a render that spreads this.props whole into the element's props
createElementAllProps(f, props, className) ==
    [tag |-> Tag(f),
     props |-> [n \in DOMAIN props \cup {"ref"} |->
                  IF n = "ref" THEN props.innerRef
                  ELSE IF n = "className" THEN render(props, className)
                  ELSE props[n]],
     children |-> props.children]

\* React.createElement(tag, { ...innerProps, ref: innerRef, className }, children)
createElement(f, props, className) ==
    [tag |-> Tag(f),
     props |-> [n \in (DOMAIN props \ Consumed) \cup {"ref", "className"} |->
                  IF n = "ref" THEN props.innerRef
                  ELSE IF n = "className" THEN render(props, className)
                  ELSE props[n]],
     children |-> props.children]

\* an instance of the component of factory Color is constructed with a props
\* object and rendered: the state initializer, then render()
ConstructElement(i, props) ==
    /\ phase = "sync"
    /\ ~inst[i].mounted
    /\ \A j \in Instances : j < i => inst[j].mounted
    /\ LET f == "Color"
           r == memoizedComputeClass(f, props.styled, World)
       IN /\ Bounded(r.world)
          /\ Commit(r.world)
          /\ lastCall' =
                [op |-> "construct", i |-> i, f |-> f, param |-> props.styled,
                 args |-> <<>>, threw |-> r.threw, err |-> r.err,
                 value |-> r.value, rendered |-> ~r.threw, served |-> 0,
                 props |-> props,
                 element |-> createElement(f, props, r.value)]
          /\ inst' = IF r.threw THEN inst
                     ELSE [inst EXCEPT ![i] =
                            [mounted |-> TRUE, factory |-> f,
                             styled |-> props.styled,
                             classNameProp |-> props.className,
                             className |-> r.value,
                             element |-> render(props, r.value)]]
    /\ UNCHANGED phase

ElementNext ==
    \/ \E i \in Instances, props \in ElementProps : ConstructElement(i, props)
    \/ \E i \in Instances : Unmount(i)
    \/ QueueUserTask
    \/ EndTurn
    \/ RunMicrotask

\* the program when elements of Color are constructed with all their props
ElementSpec == Init /\ [][ElementNext]_vars

-----------------------------------------------------------------------------
(* Factories with literal, falsy and computed descriptors *)

\* the factories whose components are constructed here
DescriptorFactories == {"Test", "Red", "RedFalsy"}

\* an instance of the component of factory f is constructed and rendered;
\* the record of the call holds the arguments style(...) handed to TypeStyle
\* (none when the class came from the cache)
ConstructDescriptors(i, f, props) ==
    /\ phase = "sync"
    /\ ~inst[i].mounted
    /\ \A j \in Instances : j < i => inst[j].mounted
    /\ props \in PropsValues(f)
    /\ LET r == memoizedComputeClass(f, props.styled, World)
       IN /\ Bounded(r.world)
          /\ Commit(r.world)
          /\ lastCall' = Call("construct", i, f, props.styled, r.world.handed,
                               r, ~r.threw)
          /\ inst' = IF r.threw THEN inst
                     ELSE [inst EXCEPT ![i] =
                            [mounted |-> TRUE, factory |-> f,
                             styled |-> props.styled,
                             classNameProp |-> props.className,
                             className |-> r.value,
                             element |-> render(props, r.value)]]
    /\ UNCHANGED phase

DescriptorInit ==
    /\ cache = [f \in Factories \cup DescriptorFactories |-> [k \in Keys |-> "undefined"]]
    /\ cacheSize = [f \in Factories \cup DescriptorFactories |-> 0]
    /\ warnings = [f \in Factories \cup DescriptorFactories |-> 0]
    /\ scheduled = FALSE
    /\ microtasks = <<>>
    /\ rules = {}
    /\ committed = {}
    /\ phase = "sync"
    /\ inst = [i \in Instances |-> Unmounted]
    /\ lastCall = NoCall
    /\ fnCalls = [f \in Factories \cup DescriptorFactories |-> [k \in Keys |-> 0]]
    /\ triggers = 0

DescriptorNext ==
    \/ \E i \in Instances, f \in DescriptorFactories, props \in AllProps :
         ConstructDescriptors(i, f, props)
    \/ \E i \in Instances : Unmount(i)
    \/ QueueUserTask
    \/ EndTurn
    \/ RunMicrotask

\* the program with components of these factories constructed and unmounted
DescriptorSpec == DescriptorInit /\ [][DescriptorNext]_vars

-----------------------------------------------------------------------------
(* microTaskDebounce(fn) for an fn that may call the debounced function *)

\* a continuation that calls fn first and resets the flag afterwards
ContinuationLateReset(w, reentrant) ==
    LET ran == forceRenderStyles(w)
        during == IF reentrant THEN microTaskDebounce(ran) ELSE ran
    IN [during EXCEPT !.scheduled = FALSE]

\* the part of the async function after `await Promise.resolve()`:
\* scheduled = false; fn(). fn runs the op and, when reentrant, calls the
\* debounced function while it executes
Continuation(w, reentrant) ==
    LET reset == [w EXCEPT !.scheduled = FALSE]
        ran == forceRenderStyles(reset)
    IN IF reentrant THEN microTaskDebounce(ran) ELSE ran

\* the record of a step of the coalescer: op is "trigger", "op" or "none";
\* reentrant tells whether the op called trigger() while it ran; served is
\* the number of trigger() calls the run answers; tick changes with every
\* run of the op
DebounceCall(op, reentrant, served, tick) ==
    [op |-> op, reentrant |-> reentrant, served |-> served, tick |-> tick]

\* trigger(): a synchronous call of the debounced function, made by
\* style(...args)
Trigger(args) ==
    /\ phase = "sync"
    /\ Commit(style(args, World).world)
    /\ lastCall' = DebounceCall("trigger", FALSE, 0, lastCall.tick)
    /\ UNCHANGED <<phase, inst>>

\* user code queues a callback that will call style(...), and so trigger()
QueueCallback ==
    /\ phase = "sync"
    /\ UserTasks < MaxUserTasks
    /\ microtasks' = Append(microtasks, "user")
    /\ lastCall' = DebounceCall("none", FALSE, 0, lastCall.tick)
    /\ UNCHANGED <<cache, cacheSize, warnings, scheduled, rules, committed,
                   phase, inst, fnCalls, triggers>>

\* the synchronous turn ends
TurnEnds ==
    /\ phase = "sync"
    /\ microtasks # <<>>
    /\ phase' = "micro"
    /\ lastCall' = DebounceCall("none", FALSE, 0, lastCall.tick)
    /\ UNCHANGED <<cache, cacheSize, warnings, scheduled, microtasks, rules,
                   committed, inst, fnCalls, triggers>>

\* a microtask runs: the continuation, which runs the op, or a user callback
\* that calls style(...), and so trigger()
RunQueued(reentrant) ==
    /\ phase = "micro"
    /\ \E n \in 1..Len(microtasks) :
         /\ \A m \in 1..(n - 1) : microtasks[m] = "flush"
         /\ LET popped == [World EXCEPT !.microtasks = Without(microtasks, n)]
            IN \/ /\ microtasks[n] = "flush"
                  /\ Commit(Continuation(popped, reentrant))
                  /\ lastCall' = DebounceCall("op", reentrant,
                                     Continuation(popped, reentrant).served,
                                     1 - lastCall.tick)
                  /\ phase' = IF Continuation(popped, reentrant).microtasks = <<>>
                              THEN "sync" ELSE "micro"
               \/ /\ microtasks[n] = "user"
                  /\ ~reentrant
                  /\ \E args \in DirectArgs : Commit(style(args, popped).world)
                  /\ lastCall' = DebounceCall("trigger", FALSE, 0, lastCall.tick)
                  /\ phase' = "micro"
    /\ UNCHANGED inst

DebounceInit ==
    /\ cache = [f \in Factories |-> [k \in Keys |-> "undefined"]]
    /\ cacheSize = [f \in Factories |-> 0]
    /\ warnings = [f \in Factories |-> 0]
    /\ scheduled = FALSE
    /\ microtasks = <<>>
    /\ rules = {}
    /\ committed = {}
    /\ phase = "sync"
    /\ inst = [i \in Instances |-> Unmounted]
    /\ lastCall = DebounceCall("none", FALSE, 0, 0)
    /\ fnCalls = [f \in Factories |-> [k \in Keys |-> 0]]
    /\ triggers = 0

RunQueuedAny == \E reentrant \in BOOLEAN : RunQueued(reentrant)

DebounceNext ==
    \/ \E args \in DirectArgs : Trigger(args)
    \/ QueueCallback
    \/ TurnEnds
    \/ RunQueuedAny

\* a coalescer made by microTaskDebounce(fn), with trigger() calls from
\* synchronous code and from microtasks
DebounceSpec == DebounceInit /\ [][DebounceNext]_vars

\* the event loop: the turn ends and the microtask queue is drained
FairDebounceSpec ==
    DebounceSpec /\ WF_vars(TurnEnds) /\ WF_vars(RunQueuedAny)

-----------------------------------------------------------------------------
(* microTaskDebounce(fn) for an fn that throws *)

\* a continuation that resets the flag after fn(): the reset is not reached
\* when fn throws
ContinuationOpThrowsLateReset(w) ==
    [w EXCEPT !.served = w.triggers,
              !.triggers = 0]

\* the part of the async function after `await Promise.resolve()` when fn
\* throws: scheduled = false; fn() is invoked and throws before it renders
\* a rule; the exception rejects the promise of the async function
ContinuationOpThrows(w) ==
    [w EXCEPT !.scheduled = FALSE,
              !.served = w.triggers,
              !.triggers = 0]

\* the continuation runs as a microtask and the op throws
RunQueuedOpThrows ==
    /\ phase = "micro"
    /\ \E n \in 1..Len(microtasks) :
         /\ \A m \in 1..(n - 1) : microtasks[m] = "flush"
         /\ microtasks[n] = "flush"
         /\ LET popped == [World EXCEPT !.microtasks = Without(microtasks, n)]
            IN /\ Commit(ContinuationOpThrows(popped))
               /\ lastCall' = DebounceCall("opThrew", FALSE,
                                  ContinuationOpThrows(popped).served,
                                  1 - lastCall.tick)
               /\ phase' = IF popped.microtasks = <<>> THEN "sync" ELSE "micro"
    /\ UNCHANGED inst

OpThrowsNext ==
    \/ \E args \in DirectArgs : Trigger(args)
    \/ QueueCallback
    \/ TurnEnds
    \/ RunQueuedAny
    \/ RunQueuedOpThrows

\* a coalescer whose op may throw when it is run
OpThrowsSpec == DebounceInit /\ [][OpThrowsNext]_vars

\* the event loop: the turn ends and the microtask queue is drained
FairOpThrowsSpec ==
    OpThrowsSpec /\ WF_vars(TurnEnds) /\ WF_vars(RunQueuedAny \/ RunQueuedOpThrows)

-----------------------------------------------------------------------------
(* Properties *)

FlushQueued == Len(SelectSeq(microtasks, LAMBDA t : t = "flush"))
Uncommitted == rules \ committed
MemoOps == {"construct", "update"}
KeyOf(param) == PropertyKey(JSONstringify(param))

\* C1: a batch of one or more trigger() calls has exactly one run of
\* forceRenderStyles queued; the run does not happen inside the call that
\* triggers (when the call returns its trigger() is not answered yet); each
\* run answers at least one trigger() call, so a batch gets one run and no
\* more; and no batch is unanswered when the microtask queue is drained and
\* the next macrotask begins. Triggers made after a run form a new batch.
C1_CoalescedOnce ==
    /\ triggers > 0 => FlushQueued = 1
    /\ triggers = 0 => FlushQueued = 0
    /\ lastCall.op = "style" => triggers >= 1
    /\ lastCall.op = "flush" => lastCall.served >= 1 /\ triggers = 0
    /\ phase = "sync" /\ microtasks = <<>> => triggers = 0

\* two trigger() calls of one turn were answered by one run, after the turn,
\* and the queue is drained
C1_Witness ==
    /\ lastCall.op = "flush"
    /\ lastCall.served = 2
    /\ microtasks = <<>>
    /\ phase = "sync"

\* C2: while a registered rule is not committed a flush is pending; a flush
\* that runs commits every registered rule; and every uncommitted rule is
\* committed eventually.
C2_FlushCommits ==
    /\ [](Uncommitted # {} => scheduled /\ FlushQueued = 1)
    /\ [](lastCall.op = "flush" => committed = rules)
    /\ (Uncommitted # {}) ~> (Uncommitted = {})

\* one flush has committed the rules of two class-name computations
C2_Witness ==
    /\ lastCall.op = "flush"
    /\ lastCall.served = 2
    /\ Cardinality(committed) = 2
    /\ committed = rules
    /\ cacheSize["Color"] = 2

\* the external compile step threw in the call lastCall records
CompileThrew ==
    \/ lastCall.op = "style" /\ typeStyle(lastCall.args).threw
    \/ /\ lastCall.op \in MemoOps
       /\ ~JSONstringify(lastCall.param).threw
       /\ cache[lastCall.f][KeyOf(lastCall.param)] = "undefined"
       /\ typeStyle(StyleArgs(lastCall.f, lastCall.param)).threw

\* C3: when TypeStyle throws inside style(...), the caller of style, of the
\* construction or of the update gets that exception, and a flush is pending
\* as after a successful call.
C3_ThrowStillTriggers ==
    CompileThrew =>
        /\ lastCall.threw
        /\ lastCall.err = TypeStyleError
        /\ scheduled
        /\ FlushQueued = 1
        /\ triggers >= 1

\* an update failed with TypeStyle's exception and the flush is scheduled
C3_Witness ==
    /\ lastCall.op = "update"
    /\ lastCall.threw
    /\ lastCall.err = TypeStyleError
    /\ scheduled
    /\ triggers = 1

\* C4 as stated: for inputs of one serialized key the wrapped fn is invoked
\* at most once, whatever fn does.
C4_AtMostOncePerKey ==
    \A f \in Factories, k \in Keys : fnCalls[f][k] <= 1

\* C4, amended: for a key whose computation returned a value, fn has been
\* invoked exactly once over all calls with that key, and every call that
\* returns gives the value stored under the key of its input.
C4_Memoized ==
    /\ \A f \in Factories, k \in Keys :
          cache[f][k] # "undefined" => fnCalls[f][k] = 1
    /\ lastCall.op \in MemoOps /\ ~lastCall.threw =>
          lastCall.value = cache[lastCall.f][KeyOf(lastCall.param)]

\* { value: null } got the class cached for { value: NaN }, fn invoked once
C4_Witness ==
    /\ lastCall.op \in MemoOps
    /\ lastCall.param = Obj("null", FALSE)
    /\ ~lastCall.threw
    /\ lastCall.value = "c_NaN_unset"
    /\ fnCalls["Color"][KeyOf(Obj("null", FALSE))] = 1

\* the memoized call of this step, when its key is not in the cache
MissStep ==
    /\ lastCall'.op \in MemoOps
    /\ ~JSONstringify(lastCall'.param).threw
    /\ cache[lastCall'.f][KeyOf(lastCall'.param)] = "undefined"

\* C5: a call with a key not in the cache invokes fn once, with the input of
\* the call; what fn returns is stored under the key and returned (and when
\* fn throws nothing is stored).
C5_MissComputes ==
    [][MissStep =>
        LET f == lastCall'.f
            k == KeyOf(lastCall'.param)
            r == typeStyle(StyleArgs(f, lastCall'.param))
        IN /\ fnCalls'[f][k] = fnCalls[f][k] + 1
           /\ \A j \in Keys \ {k} : fnCalls'[f][j] = fnCalls[f][j]
           /\ lastCall'.threw = r.threw
           /\ lastCall'.value = r.value
           /\ cache'[f][k] = r.value]_vars

\* a second key of the Color factory was computed, stored and returned
C5_Witness ==
    /\ lastCall.op = "update"
    /\ ~lastCall.threw
    /\ lastCall.f = "Color"
    /\ cacheSize["Color"] = 2
    /\ fnCalls["Color"][KeyOf(lastCall.param)] = 1
    /\ cache["Color"][KeyOf(lastCall.param)] = lastCall.value
    /\ lastCall.value = "c_NaN_unset"

\* C6 as stated: a component whose styled prop refers to itself is constructed
\* and rendered without an error and gets a computed class name.
C6_CircularSupported ==
    lastCall.op = "construct" /\ lastCall.param.circular =>
        /\ ~lastCall.threw
        /\ lastCall.rendered
        /\ lastCall.value # "undefined"

C8_EntriesStay ==
    [][\A f \in Factories, k \in Keys :
          cache[f][k] # "undefined" => cache'[f][k] = cache[f][k]]_vars

\* a computation failed after two entries were stored, and both are there
C8_Witness ==
    /\ lastCall.op = "update"
    /\ lastCall.threw
    /\ lastCall.err = TypeStyleError
    /\ cache["Color"][KeyOf(Obj("blue", FALSE))] = "c_blue_unset"
    /\ cache["Test"]["undefined"] = "c_green_5px"
    /\ cacheSize["Color"] = 2

\* C9: a resolution through a component of one factory leaves the cache, the
\* counter and the fn of every other factory alone, and its own miss is
\* decided by its own cache: it invokes its own fn for a key its cache lacks.
C9_PrivateCache ==
    [][lastCall'.op \in MemoOps =>
        /\ \A g \in Factories \ {lastCall'.f} :
              /\ cache'[g] = cache[g]
              /\ cacheSize'[g] = cacheSize[g]
              /\ fnCalls'[g] = fnCalls[g]
        /\ MissStep =>
              fnCalls'[lastCall'.f][KeyOf(lastCall'.param)] =
                  fnCalls[lastCall'.f][KeyOf(lastCall'.param)] + 1]_vars

\* both factories resolved { } and each made its own compile call
C9_Witness ==
    /\ cache["Color"]["{}"] = "c_unset_unset"
    /\ cache["Test"]["{}"] = "c_green_5px"
    /\ fnCalls["Color"]["{}"] = 1
    /\ fnCalls["Test"]["{}"] = 1
    /\ lastCall.op = "construct"
    /\ lastCall.f = "Test"
    /\ lastCall.param = Obj("none", FALSE)

\* C10: after a construction and after every update that completes, the
\* instance holds the props given and state.className is the memoized
\* resolution of their styled value, whether or not render ran.
C10_ClassNameCurrent ==
    lastCall.op \in MemoOps /\ ~lastCall.threw =>
        LET self == inst[lastCall.i]
        IN /\ self.mounted
           /\ self.styled = lastCall.param
           /\ self.className = cache[self.factory][KeyOf(lastCall.param)]
           /\ self.className = lastCall.value

\* an update with shallowly equal props recomputed the class; render was
\* skipped
C10_Witness ==
    /\ lastCall.op = "update"
    /\ ~lastCall.threw
    /\ ~lastCall.rendered
    /\ lastCall.param = Obj("blue", FALSE)
    /\ inst[lastCall.i].className = "c_blue_unset"

\* the memoized call of this step, when its key is in the cache
HitStep ==
    /\ lastCall'.op \in MemoOps
    /\ ~JSONstringify(lastCall'.param).threw
    /\ cache[lastCall'.f][KeyOf(lastCall'.param)] # "undefined"

\* C11 as stated: over constructions and updates the compile call is made at
\* most once per serialized styled value: a resolution of a value that was
\* computed before makes no compile call.
C11_CompiledOncePerValue ==
    [][lastCall'.op \in MemoOps /\ ~JSONstringify(lastCall'.param).threw =>
        LET f == lastCall'.f
            k == KeyOf(lastCall'.param)
        IN fnCalls[f][k] >= 1 => fnCalls'[f][k] = fnCalls[f][k]]_vars

\* C11, amended: every construction and every update of a factory's component
\* resolves through the factory's one cache: a value whose computation
\* returned before, in any instance, is a hit that makes no compile call
\* (no fn call, no rule registered, no trigger) and returns the stored class;
\* so a value that is cached was compiled exactly once.
C11_SharedCache ==
    /\ [](\A f \in Factories, k \in Keys :
            cache[f][k] # "undefined" => fnCalls[f][k] = 1)
    /\ [][HitStep =>
            /\ fnCalls' = fnCalls
            /\ cache' = cache
            /\ cacheSize' = cacheSize
            /\ rules' = rules
            /\ triggers' = triggers
            /\ ~lastCall'.threw
            /\ lastCall'.value =
                  cache[lastCall'.f][KeyOf(lastCall'.param)]]_vars

\* a later instance constructed with { value: "blue" } got the class from the
\* cache (the construction made no trigger), after a second value had been
\* resolved through the same factory
C11_Witness ==
    /\ lastCall.op = "construct"
    /\ lastCall.f = "Color"
    /\ lastCall.param = Obj("blue", FALSE)
    /\ lastCall.value = "c_blue_unset"
    /\ triggers = 0
    /\ ~scheduled
    /\ cacheSize["Color"] = 2
    /\ fnCalls["Color"][KeyOf(Obj("blue", FALSE))] = 1
    /\ fnCalls["Color"][KeyOf(Obj("none", FALSE))] = 1

\* C12: the className attribute of the element an instance rendered is the
\* caller's className, one space and the computed class when the caller gave
\* a className, and the computed class alone when the caller gave none.
C12_ClassNameAttribute ==
    \A i \in Instances :
        inst[i].mounted =>
            /\ inst[i].classNameProp = "undefined" =>
                  inst[i].element = inst[i].className
            /\ inst[i].classNameProp # "undefined" =>
                  inst[i].element =
                      inst[i].classNameProp \o " " \o inst[i].className

\* an instance of Test given className "foo" rendered "foo c_green_5px"
C12_Witness ==
    /\ lastCall.op = "construct"
    /\ lastCall.rendered
    /\ inst[lastCall.i].classNameProp = "foo"
    /\ inst[lastCall.i].className = "c_green_5px"
    /\ inst[lastCall.i].element = "foo c_green_5px"

\* the last call constructed and rendered an element with its props
Rendered ==
    /\ lastCall.op = "construct"
    /\ lastCall.rendered
    /\ "element" \in DOMAIN lastCall

\* C13: render forwards every prop the caller gave, other than styled,
\* innerRef, children and className, with its value; styled, innerRef and
\* children are no props of the element; className carries the merged class;
\* and children are the element's content as given.
C13_PropsForwarded ==
    Rendered =>
        LET given == lastCall.props
            forwarded == lastCall.element.props
        IN /\ \A n \in DOMAIN given \ {"styled", "innerRef", "children", "className"} :
                 n \in DOMAIN forwarded /\ forwarded[n] = given[n]
           /\ DOMAIN forwarded \cap {"styled", "innerRef", "children"} = {}
           /\ forwarded.className =
                 (IF given.className = "undefined" THEN lastCall.value
                  ELSE given.className \o " " \o lastCall.value)
           /\ lastCall.element.children = given.children

\* an element given all its props was rendered: id went through, styled did
\* not
C13_Witness ==
    /\ Rendered
    /\ lastCall.props.styled = Obj("blue", FALSE)
    /\ lastCall.props.innerRef = "refCallback"
    /\ lastCall.props.children = "Blue text"
    /\ lastCall.props.className = "foo"
    /\ lastCall.props.id = "my-id"
    /\ lastCall.element.props.id = "my-id"
    /\ lastCall.element.children = "Blue text"
    /\ lastCall.element.props.className = "foo c_blue_unset"

\* C14 as stated: a style parameter given as a prop of its own drives the
\* style function: <Color value="blue" /> gets the class of the blue rule.
C14_DirectPropsDrive ==
    Rendered /\ lastCall.props.value = "blue" =>
        lastCall.value = "c_blue_unset"

\* C15 as stated: what the `inner` prop holds becomes the element's own
\* attributes: inner={{ id: "some-id" }} gives the element the id "some-id".
C15_InnerProps ==
    Rendered /\ lastCall.props.inner = InnerId =>
        lastCall.element.props.id = "some-id"

\* C16: at most one continuation of the debounced function is queued, and
\* the scheduled flag is true exactly while one is queued; a call that
\* triggers while the flag is true queues nothing: the one continuation stays
\* queued and the flag stays true.
C16_OneInFlight ==
    /\ [](FlushQueued <= 1 /\ (scheduled <=> FlushQueued = 1))
    /\ [][scheduled /\ lastCall'.op \in {"style", "construct", "update"} =>
            /\ scheduled'
            /\ FlushQueued' = FlushQueued
            /\ Len(microtasks') <= Len(microtasks)]_vars

\* a second style(...) call of a turn found the flag set and queued nothing
C16_Witness ==
    /\ lastCall.op = "style"
    /\ phase = "sync"
    /\ triggers = 2
    /\ scheduled
    /\ microtasks = << "flush" >>

\* C17: the flag is false when the op is invoked: when the op calls trigger()
\* while it runs, a new continuation is queued (the flag is set again, one
\* continuation waits, the trigger is unanswered), and the op is run once
\* more after the run that triggered.
C17_ResetBeforeOp ==
    /\ [](lastCall.op = "op" /\ lastCall.reentrant =>
            /\ scheduled
            /\ FlushQueued = 1
            /\ triggers = 1
            /\ phase = "micro")
    /\ \A b \in {0, 1} :
          (lastCall.op = "op" /\ lastCall.reentrant /\ lastCall.tick = b)
              ~> (lastCall.op = "op" /\ lastCall.tick = 1 - b)

\* the op ran, answered two trigger() calls, and called trigger() while it ran
C17_Witness ==
    /\ lastCall.op = "op"
    /\ lastCall.reentrant
    /\ lastCall.served = 2
    /\ scheduled
    /\ microtasks = << "flush" >>

\* C18 as stated: when the computation of a miss throws, the caller gets the
\* exception, nothing is cached, the memoizer's cache and counter are as
\* before the call, and the flush is scheduled.
C18_NoPartialState ==
    [][MissStep /\ typeStyle(StyleArgs(lastCall'.f, lastCall'.param)).threw =>
        /\ lastCall'.threw
        /\ lastCall'.err = TypeStyleError
        /\ cache' = cache
        /\ cacheSize' = cacheSize
        /\ scheduled'
        /\ FlushQueued' = 1]_vars

\* C19 as stated: the warning of a memoizer has been emitted exactly when the
\* number of its cached entries has reached cacheSizeWarn, and at most once.
C19_WarnAtEntries ==
    \A f \in Factories :
        /\ warnings[f] <= 1
        /\ warnings[f] = 1 <=> CachedEntries(f) >= cacheSizeWarn

\* C20: the call that emits the warning, and every call after it, does what
\* a call does: a miss invokes fn once, stores what fn returns under the key
\* and returns it (or throws what fn throws); a hit returns the stored value
\* without invoking fn; and no entry of the cache is changed or removed.
C20_WarningOnly ==
    [][lastCall'.op \in MemoOps /\ warnings'[lastCall'.f] >= 1 =>
        LET f == lastCall'.f
            k == KeyOf(lastCall'.param)
            r == typeStyle(StyleArgs(f, lastCall'.param))
        IN /\ MissStep =>
                 /\ fnCalls'[f][k] = fnCalls[f][k] + 1
                 /\ lastCall'.threw = r.threw
                 /\ lastCall'.err = r.err
                 /\ lastCall'.value = r.value
                 /\ cache'[f][k] = r.value
           /\ HitStep =>
                 /\ fnCalls' = fnCalls
                 /\ ~lastCall'.threw
                 /\ lastCall'.value = cache[f][k]
           /\ \A j \in Keys :
                 cache[f][j] # "undefined" => cache'[f][j] = cache[f][j]]_vars

\* the miss that emitted the warning invoked fn, stored the class and
\* returned it
C20_Witness ==
    /\ lastCall.op = "construct"
    /\ lastCall.f = "Color"
    /\ ~lastCall.threw
    /\ lastCall.param = Obj("blue", FALSE)
    /\ lastCall.value = "c_blue_unset"
    /\ cache["Color"][KeyOf(Obj("blue", FALSE))] = "c_blue_unset"
    /\ fnCalls["Color"][KeyOf(Obj("blue", FALSE))] = 1
    /\ warnings["Color"] = 1
    /\ cacheSize["Color"] = cacheSizeWarn

\* C21: a resolution with `styled` absent invokes the style functions with an
\* empty object: it returns, without an exception, the class a resolution
\* with the styled value { } returns, although the two are cached under keys
\* of their own ("undefined" and "{}").
C21_AbsentAsEmpty ==
    /\ \A f \in Factories :
          cache[f]["undefined"] # "undefined" /\ cache[f]["{}"] # "undefined" =>
              cache[f]["undefined"] = cache[f]["{}"]
    /\ lastCall.op \in MemoOps /\ lastCall.param = Undefined =>
          /\ ~lastCall.threw
          /\ lastCall.value =
                typeStyle(StyleArgs(lastCall.f, Obj("none", FALSE))).value

\* Color was resolved with { } and then constructed with no styled prop: a
\* second compile call, the same class
C21_Witness ==
    /\ lastCall.op = "construct"
    /\ lastCall.f = "Color"
    /\ lastCall.param = Undefined
    /\ lastCall.value = "c_unset_unset"
    /\ cache["Color"]["{}"] = "c_unset_unset"
    /\ cache["Color"]["undefined"] = "c_unset_unset"
    /\ fnCalls["Color"]["{}"] = 1
    /\ fnCalls["Color"]["undefined"] = 1

\* the descriptors of factory f with each function entry replaced, in its
\* place, by what the function returns for the styled value given
Descriptors(f, param) ==
    [n \in 1..Len(Styles(f)) |->
        IF Styles(f)[n].fn = "fnColor"
        THEN fnColor(IF param = Undefined THEN Obj("none", FALSE) ELSE param)
        ELSE IF Styles(f)[n].fn = "fnEmpty"
        THEN fnEmpty(IF param = Undefined THEN Obj("none", FALSE) ELSE param)
        ELSE Styles(f)[n].lit]

NotFalsy(d) == ~d.falsy

C23_OneCoalescer ==
    /\ [][MissStep \/ lastCall'.op = "style" =>
            /\ scheduled'
            /\ FlushQueued' = 1
            /\ FlushQueued = 1 =>
                  SelectSeq(microtasks', LAMBDA t : t = "flush") =
                      SelectSeq(microtasks, LAMBDA t : t = "flush")
            /\ triggers' = IF triggers < MaxTriggers THEN triggers + 1
                           ELSE triggers]_vars
    /\ [](lastCall.op = "flush" =>
            /\ FlushQueued = 0
            /\ ~scheduled
            /\ Uncommitted = {})

\* in one synchronous turn a direct style(...) call and a computation of the
\* Test factory have both triggered, and one continuation is queued for both
C23_Witness ==
    /\ phase = "sync"
    /\ lastCall.op = "construct"
    /\ lastCall.f = "Test"
    /\ triggers = 2
    /\ microtasks = << "flush" >>
    /\ committed = {}
    /\ rules = {"c_blue_unset", "c_green_5px"}
    /\ cacheSize["Test"] = 1
    /\ cacheSize["Color"] = 0

\* C24: when the op throws in the continuation the flag is false already and
\* no continuation is queued; a trigger() made while the flag is false sets
\* it and queues one continuation; and while the flag is set the op is
\* invoked again.
C24_NotStuckAfterThrow ==
    /\ [](lastCall.op = "opThrew" => ~scheduled /\ FlushQueued = 0)
    /\ [][~scheduled /\ lastCall'.op = "trigger" =>
            scheduled' /\ FlushQueued' = 1]_vars
    /\ \A b \in {0, 1} :
          (scheduled /\ lastCall.tick = b)
              ~> (lastCall.op \in {"op", "opThrew"} /\ lastCall.tick = 1 - b)

\* the op threw in a run that answered two trigger() calls: the rule is not
\* committed, the flag is false and the next turn has begun
C24_Witness ==
    /\ lastCall.op = "opThrew"
    /\ lastCall.served = 2
    /\ ~scheduled
    /\ microtasks = <<>>
    /\ phase = "sync"
    /\ Uncommitted = {"c_blue_unset"}

\* C25: forceRenderStyles is run only by a continuation that a trigger()
\* queued: when it runs at least one trigger() call is unanswered, and it
\* answers them all, so there is no run without a trigger() since the run
\* before; a queued continuation always has an unanswered trigger() behind
\* it; no other step renders rules; and a cache hit triggers nothing, queues
\* nothing and renders nothing.
C25_NoSpuriousOp ==
    /\ [][lastCall'.op = "flush" =>
            /\ triggers >= 1
            /\ scheduled
            /\ lastCall'.served = triggers
            /\ triggers' = 0]_vars
    /\ [](FlushQueued >= 1 => triggers >= 1)
    /\ [][lastCall'.op # "flush" => committed' = committed]_vars
    /\ [][HitStep =>
            /\ microtasks' = microtasks
            /\ scheduled' = scheduled
            /\ triggers' = triggers
            /\ committed' = committed]_vars

\* an update of a Test instance was a cache hit after the flush of its
\* construction had run: nothing is queued and no trigger is unanswered
C25_Witness ==
    /\ lastCall.op = "update"
    /\ lastCall.f = "Test"
    /\ ~lastCall.threw
    /\ cacheSize["Test"] = 1
    /\ fnCalls["Test"][KeyOf(lastCall.param)] = 1
    /\ rules = {"c_green_5px"}
    /\ committed = rules
    /\ triggers = 0
    /\ ~scheduled
    /\ microtasks = <<>>

\* the class computation of the update of this step throws: the serializer
\* throws, or the key is not cached and TypeStyle throws
UpdateThrows ==
    /\ lastCall'.op = "update"
    /\ \/ JSONstringify(lastCall'.param).threw
       \/ MissStep /\ typeStyle(StyleArgs(lastCall'.f, lastCall'.param)).threw

\* C26: when the class computation throws in componentWillReceiveProps the
\* exception reaches the caller and setState is not called: the instance
\* keeps the className of its state, the class computed last, and the
\* element it rendered.
C26_ClassNameKept ==
    [][UpdateThrows =>
        /\ lastCall'.threw
        /\ inst'[lastCall'.i].mounted
        /\ inst'[lastCall'.i].className = inst[lastCall'.i].className
        /\ inst'[lastCall'.i].className # "undefined"
        /\ inst'[lastCall'.i].element = inst[lastCall'.i].element]_vars

\* an instance showing blue was updated with a value TypeStyle rejects: the
\* update threw and the state still holds the class of blue
C26_Witness ==
    /\ lastCall.op = "update"
    /\ lastCall.threw
    /\ lastCall.err = TypeStyleError
    /\ lastCall.param = Obj("malformed", FALSE)
    /\ inst[lastCall.i].styled = Obj("blue", FALSE)
    /\ inst[lastCall.i].className = "c_blue_unset"
    /\ inst[lastCall.i].element = "c_blue_unset"

====
